---- MODULE Spec2Model ----
(***************************************************************************)
(* A model of the conc library: the WorkerPool (workerpool.go), the        *)
(* GradientController (gradient controller source) and the                 *)
(* NonBlockingReporter (interfaces.go).                                    *)
(*                                                                         *)
(* Goroutines are modelled by their position in the code.  Two named       *)
(* threads call into the pool: "ctl", the controller's control-loop        *)
(* goroutine, and "user", the goroutine of the library user (it calls      *)
(* Start/Stop on the controller, or Incr/Decr/SettleDown on a bare pool).  *)
(* The anonymous goroutines (runProcess workers, Decr's token senders,     *)
(* SettleDown's context watchers) are fungible and kept as counts or bags. *)
(***************************************************************************)
EXTENDS Integers, Sequences, FiniteSets, Bags, TLC

(***************************************************************************)
(* Bounds of the model.                                                    *)
(***************************************************************************)
\* Width of Go's uint in the model (the real width is 32 or 64 bits).
UintBits == 16
\* Largest n a direct caller of the pool passes to Incr or Decr.
MaxN == 2
\* Cap on the number of live runProcess goroutines.
MaxWorkers == 3
\* Cap on the stop tokens still to be sent by Decr's goroutines (bare pool).
MaxTokens == 3
\* Cap on the number of live SettleDown watcher goroutines.
MaxWatchers == 2
\* Number of cancellable contexts the user thread has at hand.
MaxCtx == 1

UintMod == 2 ^ UintBits

\* context.TODO(): the context adjust passes to SettleDown; never cancelled.
TODO == 0
Ctx == 1..MaxCtx
AllCtx == {TODO} \cup Ctx

Threads == {"ctl", "user"}

VARIABLES
    wantedN,        \* WorkerPool.wantedN
    actualN,        \* WorkerPool.actualN
    mutex,          \* actualNL.L: "free" or the thread holding it
    notifyList,     \* actualNL: the threads parked in Wait, not yet notified
    nRun,           \* runProcess goroutines inside Runner.Start
    nRet,           \* runProcess goroutines whose Runner returned, before actualN--
    nBcast,         \* runProcess goroutines after actualN--, before Broadcast
    stopper,        \* bag: tokens each live Decr goroutine has still to send
    watchers,       \* bag of SettleDown's watcher goroutines
    ctxErr,         \* ctxErr[c]: ctx.Err() != nil
    pc,             \* position of each thread
    after,          \* where a thread continues when Incr returns
    arg,            \* the n of the Incr call a thread is in
    sdCtx,          \* the ctx of the SettleDown (or Stop) call a thread is in
    cfg,            \* GradientController: initial, min, max; reporter: chanSize
    quitChan,       \* GradientController.quitChan: "nil", "open" or "closed"
    resetRTTCounter,\* GradientController.resetRTTCounter
    resetNoLoadRTT, \* GradientController.resetNoLoadRTT
    noLoadRTT,      \* GradientController.noLoadRTT
    latencies,      \* NonBlockingReporter.latencies: the buffered reports
    sdOutcome,      \* how the latest SettleDown call ended, "none" during it
    inFlight,       \* NonBlockingReporter.inFlight
    calls,          \* position of each goroutine that calls Reporter.Work
    listening,      \* the consumer is blocked receiving from the reporter
    recv,           \* the reports the consumer has received, oldest first
    sendOutcome,    \* what the latest non-blocking send of the reporter did
    overDecr,       \* some Decr(n) was called with n > wantedN
    done,           \* the bare pool's caller makes no further call
    trip,           \* the Incr(n); SettleDown; Decr(n); SettleDown sequence
                    \* the caller is in: its n, the k it began at, its stage
    upd             \* history of update: the value resetRTTCounter was last
                    \* seeded to, the calls since, the latest return value,
                    \* and the RTTs of the calls since the latest probe

poolVars == <<wantedN, actualN, mutex, notifyList, nRun, nRet, nBcast, stopper, watchers>>
thrVars == <<pc, after, arg, sdCtx>>
ctlVars == <<cfg, quitChan, resetRTTCounter, resetNoLoadRTT, noLoadRTT, latencies>>
histVars == <<sdOutcome, overDecr, done, trip, upd>>
repVars == <<inFlight, calls, listening, recv, sendOutcome>>
vars == <<poolVars, ctxErr, thrVars, ctlVars, histVars, repVars>>

\* update has not been called.
NoUpdate == [seed |-> 0, count |-> 0, ret |-> 0, rtts |-> {}]

(***************************************************************************)
(* Unsigned arithmetic.                                                    *)
(***************************************************************************)
UAdd(a, b) == (a + b) % UintMod
USub(a, b) == (a + UintMod - b) % UintMod

(***************************************************************************)
(* WorkerPool.                                                             *)
(***************************************************************************)
RECURSIVE BagSum(_)
BagSum(B) ==
    IF DOMAIN B = {} THEN 0
    ELSE LET e == CHOOSE x \in DOMAIN B : TRUE
         IN e * B[e] + BagSum([x \in DOMAIN B \ {e} |-> B[x]])

\* Stop tokens Decr's goroutines have still to send on the stopper channel.
PendingTokens == BagSum(stopper)
\* Live runProcess goroutines.
Workers == nRun + nRet + nBcast

\* Incr, line 80: o.wantedN += n
IncrWantedN(w, n) == UAdd(w, n)

\* Mutant of DecrWantedN: the floor is one process, not zero.
DecrWantedNFloorOne(w, n) ==
    LET d == USub(w, n) IN IF d < 1 THEN 1 ELSE d

\* Decr, lines 105-109: o.wantedN -= n; if o.wantedN < 1 { o.wantedN = 0 }
DecrWantedN(w, n) ==
    LET d == USub(w, n) IN IF d < 1 THEN 0 ELSE d

\* Mutant of DecrSender: the send loop starts at i = 1.
DecrSenderShort(n) == IF n > 1 THEN SetToBag({n - 1}) ELSE EmptyBag

\* Decr, lines 111-116: the goroutine that sends n tokens on the stopper.
\* A goroutine with nothing (left) to send has ended.
DecrSender(n) == IF n > 0 THEN SetToBag({n}) ELSE EmptyBag

\* Decr as a whole; it takes no lock.
Decr(n) ==
    /\ wantedN' = DecrWantedN(wantedN, n)
    /\ stopper' = stopper (+) DecrSender(n)

\* Incr, line 80.  Thread t goes on to take the lock; k is where it
\* continues when Incr has returned.
IncrStart(t, n, k) ==
    /\ wantedN' = IncrWantedN(wantedN, n)
    /\ pc' = [pc EXCEPT ![t] = "incr_lock"]
    /\ arg' = [arg EXCEPT ![t] = n]
    /\ after' = [after EXCEPT ![t] = k]

\* Incr, lines 82-90: actualN += n under the lock, Broadcast, spawn n workers.
IncrLocked(t) ==
    /\ pc[t] = "incr_lock"
    /\ mutex = "free"
    /\ actualN' = UAdd(actualN, arg[t])
    /\ notifyList' = {}
    /\ nRun' = nRun + arg[t]
    /\ pc' = [pc EXCEPT ![t] = after[t]]
    /\ arg' = [arg EXCEPT ![t] = 0]
    /\ after' = [after EXCEPT ![t] = "idle"]
    /\ UNCHANGED <<wantedN, mutex, nRet, nBcast, stopper, watchers, ctxErr,
                   sdCtx, ctlVars, histVars, repVars>>

\* runProcess, line 94: Runner.Start returns because it received a token
\* from one of Decr's goroutines (a rendezvous on the unbuffered stopper).
RunnerStop ==
    /\ nRun > 0
    /\ \E r \in BagToSet(stopper) :
          stopper' = (stopper (-) SetToBag({r})) (+) DecrSender(r - 1)
    /\ nRun' = nRun - 1
    /\ nRet' = nRet + 1
    /\ UNCHANGED <<wantedN, actualN, mutex, notifyList, nBcast, watchers,
                   ctxErr, thrVars, ctlVars, histVars, repVars>>

\* runProcess, lines 96-98: actualN-- under the lock.
RunProcessDecr ==
    /\ nRet > 0
    /\ mutex = "free"
    /\ actualN' = USub(actualN, 1)
    /\ nRet' = nRet - 1
    /\ nBcast' = nBcast + 1
    /\ UNCHANGED <<wantedN, mutex, notifyList, nRun, stopper, watchers,
                   ctxErr, thrVars, ctlVars, histVars, repVars>>

\* runProcess, line 99: Broadcast, after the lock has been released.
RunProcessBroadcast ==
    /\ nBcast > 0
    /\ notifyList' = {}
    /\ nBcast' = nBcast - 1
    /\ UNCHANGED <<wantedN, actualN, mutex, nRun, nRet, stopper, watchers,
                   ctxErr, thrVars, ctlVars, histVars, repVars>>

\* Mutant of SettleCond: the loop waits only while workers are missing.
SettleCondLess(a, w) == a < w

\* SettleDown, line 133: the loop condition.
SettleCond(a, w) == a # w

\* Where a thread continues when SettleDown returns.
SdReturnTo(t) == IF t = "ctl" THEN "select" ELSE "idle"

Watcher(t) == [owner |-> t, ctx |-> sdCtx[t], local |-> FALSE]

\* SettleDown, lines 122-129: derive localCtx and start the watcher.
SdBegin(t) ==
    /\ pc[t] = "sd_begin"
    /\ BagCardinality(watchers) < MaxWatchers
    /\ watchers' = watchers (+) SetToBag({Watcher(t)})
    /\ pc' = [pc EXCEPT ![t] = "sd_lock"]
    /\ sdOutcome' = "none"
    /\ UNCHANGED <<wantedN, actualN, mutex, notifyList, nRun, nRet, nBcast,
                   stopper, ctxErr, after, arg, sdCtx, ctlVars, overDecr, done, trip,
                   upd,                   repVars>>

\* The deferred cancel() of line 123: localCtx.Done() becomes receivable for
\* this call's watcher, if that goroutine has not ended already.  A watcher
\* of context.TODO() finds ctx.Err() == nil whenever it runs and ends without
\* a Broadcast: it is dropped here.
CancelLocal(t) ==
    IF BagIn(Watcher(t), watchers)
    THEN (watchers (-) SetToBag({Watcher(t)}))
             (+) (IF sdCtx[t] = TODO THEN EmptyBag
                  ELSE SetToBag({[Watcher(t) EXCEPT !.local = TRUE]}))
    ELSE watchers

\* How a returning SettleDown call is recorded: it returned from its first
\* test of the loop condition, or after at least one Wait.
Settled(t) == IF pc[t] = "sd_parked" THEN "woken_settled" ELSE "settled"

\* SettleDown, lines 131-136 (and the re-lock inside Wait, after a
\* Broadcast): with the lock held, test the loop condition and then ctx.Err().
\* The thread returns (deferred Unlock and cancel) or goes on to Wait, still
\* holding the lock.
SdCheck(t) ==
    /\ \/ pc[t] = "sd_lock"
       \/ pc[t] = "sd_parked" /\ t \notin notifyList
    /\ mutex = "free"
    /\ IF ~SettleCond(actualN, wantedN)
       THEN /\ pc' = [pc EXCEPT ![t] = SdReturnTo(t)]
            /\ sdOutcome' = Settled(t)
            /\ watchers' = CancelLocal(t)
            /\ mutex' = mutex
       ELSE IF ctxErr[sdCtx[t]]
       THEN /\ pc' = [pc EXCEPT ![t] = SdReturnTo(t)]
            /\ sdOutcome' = "cancelled"
            /\ watchers' = CancelLocal(t)
            /\ mutex' = mutex
       ELSE /\ pc' = [pc EXCEPT ![t] = "sd_wait"]
            /\ sdOutcome' = sdOutcome
            /\ mutex' = t
            /\ watchers' = watchers
    /\ UNCHANGED <<wantedN, actualN, notifyList, nRun, nRet, nBcast, stopper,
                   ctxErr, after, arg, sdCtx, ctlVars, overDecr, done, trip,
                   upd,                   repVars>>

\* SettleDown, line 137: Wait puts the caller on the notify list and
\* releases the lock; the caller is parked until the next Broadcast.
SdWait(t) ==
    /\ pc[t] = "sd_wait"
    /\ mutex = t
    /\ notifyList' = notifyList \cup {t}
    /\ mutex' = "free"
    /\ pc' = [pc EXCEPT ![t] = "sd_parked"]
    /\ UNCHANGED <<wantedN, actualN, nRun, nRet, nBcast, stopper, watchers,
                   ctxErr, after, arg, sdCtx, ctlVars, histVars, repVars>>

\* SettleDown, lines 124-129: the watcher wakes when localCtx is done
\* (cancel() was called, or ctx was cancelled) and Broadcasts, without
\* taking the lock, if ctx.Err() != nil.
WatcherRun ==
    \E w \in BagToSet(watchers) :
        /\ w.local \/ ctxErr[w.ctx]
        /\ notifyList' = IF ctxErr[w.ctx] THEN {} ELSE notifyList
        /\ watchers' = watchers (-) SetToBag({w})
        /\ UNCHANGED <<wantedN, actualN, mutex, nRun, nRet, nBcast, stopper,
                       ctxErr, thrVars, ctlVars, histVars, repVars>>

\* The owner of a context cancels it (or its deadline passes).
CancelCtx ==
    \E c \in Ctx :
        /\ ~ctxErr[c]
        /\ ctxErr' = [ctxErr EXCEPT ![c] = TRUE]
        /\ UNCHANGED <<poolVars, thrVars, ctlVars, histVars, repVars>>

SdStates == {"sd_begin", "sd_lock", "sd_wait", "sd_parked"}

(***************************************************************************)
(* SpecPool: a bare WorkerPool driven by one caller thread ("user"), which *)
(* makes any sequence of Incr, Decr and SettleDown calls.                  *)
(***************************************************************************)
InitPoolVars ==
    /\ wantedN = 0
    /\ actualN = 0
    /\ mutex = "free"
    /\ notifyList = {}
    /\ nRun = 0
    /\ nRet = 0
    /\ nBcast = 0
    /\ stopper = EmptyBag
    /\ watchers = EmptyBag
    /\ ctxErr = [c \in AllCtx |-> FALSE]
    /\ after = [t \in Threads |-> "idle"]
    /\ arg = [t \in Threads |-> 0]
    /\ sdCtx = [t \in Threads |-> TODO]
    /\ sdOutcome = "none"
    /\ overDecr = FALSE
    /\ done = FALSE
    /\ trip = [n |-> 0, k |-> 0, stage |-> 0]
    /\ upd = NoUpdate

\* No goroutine is inside Reporter.Work and no consumer is modelled.
NoReporter ==
    /\ inFlight = 0
    /\ calls = <<>>
    /\ listening = FALSE
    /\ recv = <<>>
    /\ sendOutcome = "none"

\* No controller is attached to the bare pool.
NoController ==
    /\ cfg = [min |-> 0, initial |-> 0, max |-> 0, chanSize |-> 0]
    /\ quitChan = "nil"
    /\ resetRTTCounter = 0
    /\ resetNoLoadRTT = FALSE
    /\ noLoadRTT = 0
    /\ latencies = <<>>

InitPool ==
    /\ InitPoolVars
    /\ NoController
    /\ NoReporter
    /\ pc = [t \in Threads |-> IF t = "ctl" THEN "off" ELSE "idle"]

CallIncrN(n) ==
    /\ pc["user"] = "idle"
    /\ ~done
    /\ Workers + n <= MaxWorkers
    /\ IncrStart("user", n, "idle")
    /\ UNCHANGED <<actualN, mutex, notifyList, nRun, nRet, nBcast, stopper,
                   watchers, ctxErr, sdCtx, ctlVars, histVars, repVars>>

CallDecrN(n) ==
    /\ pc["user"] = "idle"
    /\ ~done
    /\ PendingTokens + n <= MaxTokens
    /\ Decr(n)
    /\ overDecr' = (overDecr \/ n > wantedN)
    /\ UNCHANGED <<actualN, mutex, notifyList, nRun, nRet, nBcast, watchers,
                   ctxErr, thrVars, ctlVars, sdOutcome, done, trip, upd,
                   repVars>>

CallIncr == \E n \in 0..MaxN : CallIncrN(n)

CallDecr == \E n \in 0..MaxN : CallDecrN(n)

CallSettleDown ==
    \E c \in Ctx :
        /\ pc["user"] = "idle"
        /\ ~done
        /\ pc' = [pc EXCEPT !["user"] = "sd_begin"]
        /\ sdCtx' = [sdCtx EXCEPT !["user"] = c]
        /\ UNCHANGED <<poolVars, ctxErr, after, arg, ctlVars, histVars, repVars>>

\* The caller's sequence of calls ends.
CallerDone ==
    /\ pc["user"] = "idle"
    /\ ~done
    /\ done' = TRUE
    /\ UNCHANGED <<poolVars, ctxErr, thrVars, ctlVars, sdOutcome, overDecr, trip,
                   upd,                   repVars>>

UserIncrLocked == IncrLocked("user")
UserSdBegin == SdBegin("user")
UserSdCheck == SdCheck("user")
UserSdWait == SdWait("user")

\* The steps of the user thread inside a pool call.
UserPoolStep ==
    \/ UserIncrLocked
    \/ UserSdBegin
    \/ UserSdCheck
    \/ UserSdWait

NextPool ==
    \/ CallIncr
    \/ CallDecr
    \/ CallSettleDown
    \/ CallerDone
    \/ UserIncrLocked
    \/ UserSdBegin
    \/ UserSdCheck
    \/ UserSdWait
    \/ RunnerStop
    \/ RunProcessDecr
    \/ RunProcessBroadcast
    \/ WatcherRun
    \/ CancelCtx

SpecPool == InitPool /\ [][NextPool]_vars

\* The goroutine scheduler runs every goroutine that can take a step, and
\* every Runner returns once a stop token is receivable.
FairSpecPool ==
    /\ SpecPool
    /\ WF_vars(UserPoolStep)
    /\ WF_vars(WatcherRun)
    /\ WF_vars(RunnerStop)
    /\ WF_vars(RunProcessDecr)
    /\ WF_vars(RunProcessBroadcast)

\* The same scheduler, with Runners that are under no obligation to return.
StubbornSpecPool ==
    /\ SpecPool
    /\ WF_vars(UserPoolStep)
    /\ WF_vars(WatcherRun)
    /\ WF_vars(RunProcessDecr)
    /\ WF_vars(RunProcessBroadcast)

(***************************************************************************)
(* Claims about the bare pool.                                             *)
(***************************************************************************)
InSettleDown(t) == pc[t] \in SdStates

\* C1: whenever SettleDown returns and its ctx has not been cancelled,
\* actualN = wantedN at the moment of return (read under the mutex), whatever
\* Incr and Decr calls the caller made before and however workers exited.
C1_SettleDownReturnsSettled ==
    [][(InSettleDown("user") /\ ~InSettleDown("user")'
            /\ ~ctxErr'[sdCtx["user"]])
          => actualN' = wantedN']_vars

\* A SettleDown call that had to Wait has returned, its ctx not cancelled,
\* after Incr and Decr calls that left workers running.
C1_Witness ==
    /\ pc["user"] = "idle"
    /\ sdOutcome = "woken_settled"
    /\ ~ctxErr[sdCtx["user"]]
    /\ wantedN > 0
    /\ ~overDecr

\* C2: once the caller's Incr/Decr sequence (each Decr(n) with n <= wantedN)
\* has ended, the pool eventually has actualN = wantedN and keeps it; and
\* outside an Incr call, actualN = wantedN is only ever left by the next
\* Incr or Decr.
C2_EventuallySettled ==
    /\ [](done => <>[](overDecr \/ actualN = wantedN))
    /\ [][(pc["user"] # "incr_lock" /\ ~overDecr /\ actualN = wantedN
              /\ wantedN' = wantedN /\ pc'["user"] # "incr_lock")
            => actualN' = wantedN']_vars

\* The caller's sequence has ended with stop tokens outstanding and more
\* workers running than tokens: the pool still has to converge.
C2_Witness ==
    /\ done
    /\ ~overDecr
    /\ PendingTokens > 0
    /\ nRun > PendingTokens
    /\ wantedN > 0

\* C3: a SettleDown whose ctx is cancelled (before the call, between the
\* waiter's ctx check and its Wait, or while it waits) eventually returns,
\* even if no worker ever exits.  (Stated for pools whose Decr calls all had
\* n <= wantedN, so that actualN # wantedN stands for workers still running.)
C3_CancelledSettleDownReturns ==
    [](InSettleDown("user") /\ ctxErr[sdCtx["user"]] /\ ~overDecr
          => <>(~InSettleDown("user")))

Max0(x) == IF x < 0 THEN 0 ELSE x

\* C7: Decr(n) saturates: afterwards wantedN = max(0, wantedN_before - n),
\* for every n, also n > wantedN.
C7_DecrSaturates ==
    [][\A n \in 0..MaxN : CallDecrN(n) => wantedN' = Max0(wantedN - n)]_vars

(***************************************************************************)
(* GradientController.                                                     *)
(***************************************************************************)
\* Largest max limit among the configurations explored.
MaxLimit == 2
\* Largest depth of the reporter's latencies channel explored.
MaxChanSize == 1
\* The probeInterval the controller is configured with.
ProbeInterval == 2

\* NewGradientController, lines 84, 85 and 88: the defaults, as fractions.
rttTolerance == [num |-> 2, den |-> 1]
smoothing == [num |-> 1, den |-> 5]
backoffRatio == [num |-> 9, den |-> 10]

\* The RTTs workers report, and the reports the controller model draws:
\* update reads RTT and Err only, and InFlight is left 0 in them.
RTTs == {1, 3}
Executions == [inFlight : {0}, rtt : RTTs, err : BOOLEAN]

\* Mutant of Accepted: initial is not checked against max.
AcceptedNoInitialMax(c) ==
    /\ ~(c.min > c.max)
    /\ ~(c.initial < c.min)

\* NewGradientController, lines 96-104: the argument invariants.
Accepted(c) ==
    /\ ~(c.min > c.max)
    /\ ~(c.initial < c.min)
    /\ ~(c.initial > c.max)

Configs ==
    {c \in [min : 0..MaxLimit, initial : 0..MaxLimit, max : 0..MaxLimit,
            chanSize : 0..MaxChanSize] : Accepted(c)}

min(a, b) == IF a < b THEN a ELSE b
max(a, b) == IF a > b THEN a ELSE b

\* sqrt, lines 274-278: uint(math.Round(math.Sqrt(float64(x)))).
sqrt(x) ==
    CHOOSE r \in 0..x :
        /\ r = 0 \/ (2 * r - 1) * (2 * r - 1) <= 4 * x
        /\ 4 * x < (2 * r + 1) * (2 * r + 1)

queueSize(x) == sqrt(x)

\* nextResetCounter, lines 210-212: the values it can return.
nextResetCounter == {UAdd(ProbeInterval, k) : k \in 0..(ProbeInterval - 1)}

\* NewGradientController, lines 84, 85 and 88: the default options update
\* computes with.
DefaultOptions ==
    [rttTolerance |-> rttTolerance, smoothing |-> smoothing,
     backoffRatio |-> backoffRatio]

\* float64 NaN, written as a fraction.
NaN == [num |-> 0, den |-> 0]

\* update, line 193: maxf(0.5, minf(1.0, tol*noLoadRTT/RTT)), as a fraction.
\* With RTT = 0 the quotient is +Inf, which minf turns into 1.0, or, with
\* noLoadRTT = 0 too, 0/0 = NaN: every comparison with NaN is false, so
\* that minf(1.0, NaN) and maxf(0.5, NaN) both return their second argument.
gradientWith(tol, noLoad, rtt) ==
    LET n == tol.num * noLoad
        d == tol.den * rtt
    IN IF n = 0 /\ d = 0 THEN NaN
       ELSE IF n > d THEN [num |-> 1, den |-> 1]
       ELSE IF 2 * n < d THEN [num |-> 1, den |-> 2]
       ELSE [num |-> n, den |-> d]

\* update, line 193, with the default rttTolerance.
gradient(noLoad, rtt) == gradientWith(rttTolerance, noLoad, rtt)

\* update, lines 195-207: the limit of a step that is no probe, from the
\* options o, the current limit, the (already updated) noLoadRTT and the
\* report.  Without an error a NaN gradient makes newLimit NaN: the test of
\* line 203 is false and line 207 converts NaN to uint, whose result
\* depends on the implementation; nan is that result.
updateLimitWith(o, currLimit, noLoad, r, nan) ==
    LET q == queueSize(currLimit)
        g == gradientWith(o.rttTolerance, noLoad, r.rtt)
        pre == IF r.err
               THEN [num |-> currLimit * o.backoffRatio.num,
                     den |-> o.backoffRatio.den]
               ELSE [num |-> currLimit * g.num + q * g.den, den |-> g.den]
        new == IF pre.num < currLimit * pre.den
               THEN [num |-> (o.smoothing.den - o.smoothing.num) * currLimit * pre.den
                                 + o.smoothing.num * pre.num,
                     den |-> o.smoothing.den * pre.den]
               ELSE pre
    IN IF new.den = 0 THEN max(q, nan)
       ELSE max(q, (new.num \div new.den) % UintMod)

\* update, lines 195-207, with the default options; the RTTs of Executions
\* are positive, so that no NaN arises.
updateLimit(currLimit, noLoad, r) ==
    updateLimitWith(DefaultOptions, currLimit, noLoad, r, 0)

\* Mutant of Clamp: the upper bound is not applied.
ClampNoMax(newLimit) == max(newLimit, cfg.min)

\* adjust, lines 215-216: the clamp.
Clamp(newLimit) == min(max(newLimit, cfg.min), cfg.max)

\* adjust, lines 223-235, run by the control task with the clamped limit nl:
\* Incr or Decr by the difference; after a change the task continues at
\* next, and without one adjust returns to the select.
adjustTo(nl, next) ==
    LET currLimit == wantedN
    IN IF nl > currLimit
       THEN /\ IncrStart("ctl", nl - currLimit, next)
            /\ stopper' = stopper
       ELSE IF currLimit > nl
       THEN /\ Decr(currLimit - nl)
            /\ pc' = [pc EXCEPT !["ctl"] = next]
            /\ UNCHANGED <<arg, after>>
       ELSE /\ pc' = [pc EXCEPT !["ctl"] = "select"]
            /\ UNCHANGED <<wantedN, stopper, arg, after>>

\* Mutant of adjust: SettleDown is never called.
adjustNeverSettle(newLimit, settle) == adjustTo(Clamp(newLimit), "select")

\* Mutant of adjust: SettleDown is called whatever settle says.
adjustAlwaysSettle(newLimit, settle) == adjustTo(Clamp(newLimit), "sd_begin")

\* adjust, lines 214-236: SettleDown(context.TODO()) follows a change if
\* settle is set.
adjust(newLimit, settle) ==
    adjustTo(Clamp(newLimit), IF settle THEN "sd_begin" ELSE "select")

\* The workers an adjust(newLimit) would spawn fit under the model's cap.
AdjustFits(newLimit) ==
    Clamp(newLimit) > wantedN
        => Workers + (Clamp(newLimit) - wantedN) <= MaxWorkers

\* Start, lines 142-146: a fresh quitChan and WaitGroup, and the control task.
UserStart ==
    /\ pc["user"] = "idle"
    /\ quitChan # "open"
    /\ pc["ctl"] = "off"
    /\ Workers + cfg.initial <= MaxWorkers
    /\ quitChan' = "open"
    /\ pc' = [pc EXCEPT !["ctl"] = "entry"]
    /\ UNCHANGED <<poolVars, ctxErr, after, arg, sdCtx, cfg, resetRTTCounter,
                   resetNoLoadRTT, noLoadRTT, latencies, histVars, repVars>>

\* Start, line 149: the control task's c.pool.Incr(c.initial).
CtlEntry ==
    /\ pc["ctl"] = "entry"
    /\ IncrStart("ctl", cfg.initial, "seed")
    /\ UNCHANGED <<actualN, mutex, notifyList, nRun, nRet, nBcast, stopper,
                   watchers, ctxErr, sdCtx, ctlVars, histVars, repVars>>

\* Start, lines 150-151.
CtlSeed ==
    /\ pc["ctl"] = "seed"
    /\ resetRTTCounter' \in nextResetCounter
    /\ resetNoLoadRTT' = TRUE
    /\ pc' = [pc EXCEPT !["ctl"] = "select"]
    /\ UNCHANGED <<poolVars, ctxErr, after, arg, sdCtx, cfg, quitChan,
                   noLoadRTT, latencies, histVars, repVars>>

\* Start, lines 155-156: the closed quitChan is selected; wg.Done().
CtlQuit ==
    /\ pc["ctl"] = "select"
    /\ quitChan = "closed"
    /\ pc' = [pc EXCEPT !["ctl"] = "off"]
    /\ UNCHANGED <<poolVars, ctxErr, after, arg, sdCtx, ctlVars, histVars, repVars>>

\* Mutant of ProbeDue: the probe is taken one report early.
ProbeDueEarly(counter) == counter <= 1

\* update, line 179: the test of the decremented resetRTTCounter.
ProbeDue(counter) == counter <= 0

\* Mutant of NoLoadAfter: every report overwrites noLoadRTT.
NoLoadAfterLatest(r) == r.rtt

\* update, lines 185-188: noLoadRTT after a step that is no probe.
NoLoadAfter(r) ==
    IF resetNoLoadRTT \/ noLoadRTT > r.rtt THEN r.rtt ELSE noLoadRTT

\* update, lines 175-208: the value it returns for report r.
updateReturn(r) ==
    LET currLimit == wantedN
    IN IF ProbeDue(USub(resetRTTCounter, 1))
       THEN queueSize(currLimit)
       ELSE updateLimit(currLimit, NoLoadAfter(r), r)

\* update, lines 178-188: what it does to the controller's variables; k is
\* what nextResetCounter() returns if update calls it.
UpdateState(r, k) ==
    LET counter == USub(resetRTTCounter, 1)
        probe == ProbeDue(counter)
    IN /\ resetRTTCounter' = IF probe THEN k ELSE counter
       /\ resetNoLoadRTT' = IF probe THEN TRUE
                            ELSE IF resetNoLoadRTT \/ noLoadRTT > r.rtt THEN FALSE
                            ELSE resetNoLoadRTT
       /\ noLoadRTT' = IF probe THEN noLoadRTT ELSE NoLoadAfter(r)

\* update, lines 175-208, and the adjust(..., true) of line 158, for report r;
\* k is what nextResetCounter() returns if update calls it.
Update(r, k) ==
    /\ AdjustFits(updateReturn(r))
    /\ UpdateState(r, k)
    /\ adjust(updateReturn(r), TRUE)

\* Start, lines 157-158: a report is received from NotifyChan().  It is the
\* oldest buffered report or, with nothing buffered, the report a worker's
\* done() hands over to the task blocked in the select.  A task that finds
\* quitChan closed is never blocked in the select.
CtlReport ==
    /\ pc["ctl"] = "select"
    /\ \E r \in Executions, k \in nextResetCounter :
          /\ \/ /\ latencies # <<>>
                /\ r = Head(latencies)
                /\ latencies' = Tail(latencies)
             \/ /\ latencies = <<>>
                /\ quitChan = "open"
                /\ nRun > 0
                /\ latencies' = latencies
          /\ Update(r, k)
    /\ UNCHANGED <<actualN, mutex, notifyList, nRun, nRet, nBcast, watchers,
                   ctxErr, sdCtx, cfg, quitChan, histVars, repVars>>

\* Start, lines 159-164: a worker's NoWork() finds the task blocked in the
\* select.
CtlNoWork ==
    /\ pc["ctl"] = "select"
    /\ quitChan = "open"
    /\ nRun > 0
    /\ LET newLimit == USub(wantedN, 1)
       IN IF newLimit >= cfg.min
          THEN AdjustFits(newLimit) /\ adjust(newLimit, FALSE)
          ELSE UNCHANGED <<wantedN, stopper, pc, arg, after>>
    /\ UNCHANGED <<actualN, mutex, notifyList, nRun, nRet, nBcast, watchers,
                   ctxErr, sdCtx, ctlVars, histVars, repVars>>

\* done, lines 323-330 of interfaces.go: a worker's report goes into the
\* channel's buffer when there is room (and is dropped otherwise).
WorkerReport ==
    /\ nRun > 0
    /\ Len(latencies) < cfg.chanSize
    /\ \E r \in Executions : latencies' = Append(latencies, r)
    /\ UNCHANGED <<poolVars, ctxErr, thrVars, cfg, quitChan, resetRTTCounter,
                   resetNoLoadRTT, noLoadRTT, histVars, repVars>>

\* Stop, lines 266-267: close(c.quitChan), then wait for the control task.
UserStop ==
    /\ pc["user"] = "idle"
    /\ quitChan = "open"
    /\ \E c \in Ctx : sdCtx' = [sdCtx EXCEPT !["user"] = c]
    /\ quitChan' = "closed"
    /\ pc' = [pc EXCEPT !["user"] = "stop_wg"]
    /\ UNCHANGED <<poolVars, ctxErr, after, arg, cfg, resetRTTCounter,
                   resetNoLoadRTT, noLoadRTT, latencies, histVars, repVars>>

\* Mutant of UserStopDecr: Stop goes on to SettleDown without the Decr.
UserStopNoDecr ==
    /\ pc["user"] = "stop_wg"
    /\ pc["ctl"] = "off"
    /\ pc' = [pc EXCEPT !["user"] = "sd_begin"]
    /\ UNCHANGED <<poolVars, ctxErr, after, arg, sdCtx, ctlVars, histVars, repVars>>

\* Mutant of UserStopDecr: Stop does not wait for the control task.
UserStopDecrNoWait ==
    /\ pc["user"] = "stop_wg"
    /\ Decr(wantedN)
    /\ pc' = [pc EXCEPT !["user"] = "sd_begin"]
    /\ UNCHANGED <<actualN, mutex, notifyList, nRun, nRet, nBcast, watchers,
                   ctxErr, after, arg, sdCtx, ctlVars, histVars, repVars>>

\* Stop, lines 267-270: wg.Wait() returns; c.pool.Decr(c.pool.WantedN()).
UserStopDecr ==
    /\ pc["user"] = "stop_wg"
    /\ pc["ctl"] = "off"
    /\ Decr(wantedN)
    /\ pc' = [pc EXCEPT !["user"] = "sd_begin"]
    /\ UNCHANGED <<actualN, mutex, notifyList, nRun, nRet, nBcast, watchers,
                   ctxErr, after, arg, sdCtx, ctlVars, histVars, repVars>>

CtlIncrLocked == IncrLocked("ctl")
CtlSdBegin == SdBegin("ctl")
CtlSdCheck == SdCheck("ctl")
CtlSdWait == SdWait("ctl")

\* The steps of the control task that wait for no event.
CtlStep ==
    \/ CtlEntry
    \/ CtlIncrLocked
    \/ CtlSeed
    \/ CtlSdBegin
    \/ CtlSdCheck
    \/ CtlSdWait

\* The steps of the user thread inside Stop.
UserStopStep ==
    \/ UserStopDecr
    \/ UserSdBegin
    \/ UserSdCheck
    \/ UserSdWait

Init ==
    /\ InitPoolVars
    /\ NoReporter
    /\ cfg \in Configs
    /\ quitChan = "nil"
    /\ resetRTTCounter = 0
    /\ resetNoLoadRTT = FALSE
    /\ noLoadRTT = 0
    /\ latencies = <<>>
    /\ pc = [t \in Threads |-> IF t = "ctl" THEN "off" ELSE "idle"]

Next ==
    \/ UserStart
    \/ UserStop
    \/ UserStopDecr
    \/ UserSdBegin
    \/ UserSdCheck
    \/ UserSdWait
    \/ CtlEntry
    \/ CtlIncrLocked
    \/ CtlSeed
    \/ CtlReport
    \/ CtlNoWork
    \/ CtlQuit
    \/ CtlSdBegin
    \/ CtlSdCheck
    \/ CtlSdWait
    \/ WorkerReport
    \/ RunnerStop
    \/ RunProcessDecr
    \/ RunProcessBroadcast
    \/ WatcherRun
    \/ CancelCtx

Spec == Init /\ [][Next]_vars

\* The configurations the specifications with fairness start from: every
\* accepted triple of limits with an unbuffered reporter, and one with a
\* buffered reporter.
FairConfigs ==
    {c \in Configs :
        c.chanSize = 0 \/ (c.min = 1 /\ c.initial = MaxLimit /\ c.max = MaxLimit)}

FairInit == Init /\ cfg \in FairConfigs

\* The goroutine scheduler runs every goroutine that can take a step; every
\* Runner returns once a stop token is receivable; and the select of the
\* control loop, which picks at random among its ready cases, does not pass
\* over the closed quitChan forever.
FairSpec ==
    /\ FairInit /\ [][Next]_vars
    /\ WF_vars(CtlStep)
    /\ SF_vars(CtlQuit)
    /\ WF_vars(UserStopStep)
    /\ WF_vars(WatcherRun)
    /\ WF_vars(RunnerStop)
    /\ WF_vars(RunProcessDecr)
    /\ WF_vars(RunProcessBroadcast)

\* The same scheduler, with Runners that are under no obligation to return.
StubbornSpec ==
    /\ FairInit /\ [][Next]_vars
    /\ WF_vars(CtlStep)
    /\ SF_vars(CtlQuit)
    /\ WF_vars(UserStopStep)
    /\ WF_vars(WatcherRun)
    /\ WF_vars(RunProcessDecr)
    /\ WF_vars(RunProcessBroadcast)

(***************************************************************************)
(* Claims about the controller.                                            *)
(***************************************************************************)
InStop == pc["user"] = "stop_wg" \/ InSettleDown("user")
StopReturned == quitChan = "closed" /\ pc["user"] = "idle"
InRange == cfg.min <= wantedN /\ wantedN <= cfg.max

\* C4: with Runners that honour the stopper, a Stop whose ctx is never
\* cancelled returns from every state of a started controller; at its return
\* the control task has exited and wantedN = actualN = 0; and wantedN stays 0
\* until the controller is started again.
C4_StopReturns ==
    /\ [](InStop => <>(StopReturned \/ ctxErr[sdCtx["user"]]))
    /\ [][(InStop /\ StopReturned' /\ ~ctxErr[sdCtx["user"]])
            => (pc'["ctl"] = "off" /\ wantedN' = 0 /\ actualN' = 0)]_vars
    /\ [](StopReturned => wantedN = 0)

\* Stop has returned, its ctx not cancelled, after its SettleDown had to wait
\* for workers to exit.
C4_Witness ==
    /\ StopReturned
    /\ ~ctxErr[sdCtx["user"]]
    /\ sdOutcome = "woken_settled"
    /\ cfg.initial > 0
    /\ actualN = 0

\* C5: a Stop whose ctx has expired returns, from every state, also when a
\* Runner never yields to the stopper while the control task waits in
\* adjust's SettleDown.  (Stated for min >= 1, where wantedN - 1 of the
\* no-work case cannot wrap around.)
C5_ExpiredStopReturns ==
    [](InStop /\ ctxErr[sdCtx["user"]] /\ cfg.min >= 1 => <>StopReturned)

\* C6, as claimed: in every state between Start returning and Stop being
\* called, min <= wantedN <= max.
C6_WithinBoundsAfterStart ==
    quitChan = "open" => InRange

\* C6, amended: in every state between the control task's initial
\* Incr(initial) and Stop being called, min <= wantedN <= max.
C6_WithinBoundsAfterEntry ==
    (quitChan = "open" /\ pc["ctl"] # "entry") => InRange

\* The running controller has raised the limit from initial to max.
C6_Witness ==
    /\ quitChan = "open"
    /\ pc["ctl"] = "select"
    /\ cfg.initial < cfg.max
    /\ wantedN = cfg.max
    /\ ~resetNoLoadRTT

\* C8: a no-work signal received while wantedN = min changes nothing:
\* wantedN, actualN, the workers and the stop tokens stay as they are.
C8_NoWorkAtMinIsNoOp ==
    [][(CtlNoWork /\ wantedN = cfg.min)
          => UNCHANGED <<wantedN, actualN, nRun, stopper>>]_vars

\* C9: a no-work signal received while wantedN >= 1 and wantedN - 1 >= min
\* lowers wantedN by exactly 1, schedules exactly one stop token, and leaves
\* the control task at its select, not in SettleDown.
C9_NoWorkShedsOne ==
    [][(CtlNoWork /\ wantedN >= 1 /\ wantedN - 1 >= cfg.min)
          => /\ wantedN' = wantedN - 1
             /\ PendingTokens' = PendingTokens + 1
             /\ pc'["ctl"] = "select"
             /\ UNCHANGED <<actualN, nRun, watchers>>]_vars

\* The control task is back at its select with a token still outstanding and
\* a worker too many: only a no-work signal leaves it there while no context
\* has been cancelled.
C9_Witness ==
    /\ quitChan = "open"
    /\ pc["ctl"] = "select"
    /\ PendingTokens = 1
    /\ actualN = wantedN + 1
    /\ \A c \in Ctx : ~ctxErr[c]

(***************************************************************************)
(* NonBlockingReporter (interfaces.go, lines 256-331).                     *)
(* SpecReporter: goroutines call Work and NoWork on one reporter while a   *)
(* consumer enters and leaves a receive on its two channels, one event per *)
(* receive, as the control loop's select does.                             *)
(***************************************************************************)
\* Number of goroutines that call Work and NoWork.
MaxCallers == 2
\* Number of reports the consumer receives at most.
MaxRecv == 2

Callers == 1..MaxCallers

\* done, line 324: uint(inflight) of an int32.
ToUint(x) == x % UintMod

\* start, line 313: atomic.AddInt32(&r.inFlight, 1).
StartInFlight(n) == n + 1

\* done, line 319: atomic.AddInt32(&r.inFlight, -1).
DoneInFlight(n) == n - 1

\* Mutant of PanicInFlight: the recover branch leaves the gauge alone.
PanicInFlightKept(n) == n

\* Work, lines 301-305: the decrement of the recover branch.
PanicInFlight(n) == n - 1

\* Mutant of SendOutcome: the select has no default case.
SendOutcomeBlocking(receiver, buffered, size) ==
    IF receiver THEN "handed"
    ELSE IF buffered < size THEN "buffered"
    ELSE "blocked"

\* done, lines 323-330, and NoWork, lines 286-291: the select with one send
\* case and a default.  The send is taken when a receiver is blocked on the
\* channel or its buffer has room, and the default otherwise.
SendOutcome(receiver, buffered, size) ==
    IF receiver THEN "handed"
    ELSE IF buffered < size THEN "buffered"
    ELSE "dropped"

\* Work, lines 296-297: start().
WorkStart(i) ==
    /\ calls[i] = "idle"
    /\ inFlight' = StartInFlight(inFlight)
    /\ calls' = [calls EXCEPT ![i] = "unit"]
    /\ UNCHANGED <<poolVars, ctxErr, thrVars, ctlVars, histVars, listening, recv,
                   sendOutcome>>

\* Work, lines 300-309, and done, lines 316-331: unit returns (with or
\* without an error), recover() is nil, done decrements the gauge and offers
\* the Execution without blocking: a consumer blocked in its receive takes
\* it, else it goes into the buffer if there is room, else it is dropped.
WorkReturn(i) ==
    /\ calls[i] = "unit"
    /\ \E rtt \in RTTs, err \in BOOLEAN :
          LET inflight == DoneInFlight(inFlight)
              r == [inFlight |-> ToUint(inflight), rtt |-> rtt, err |-> err]
              out == SendOutcome(listening, Len(latencies), cfg.chanSize)
          IN /\ out # "blocked"
             /\ inFlight' = inflight
             /\ sendOutcome' = out
             /\ recv' = IF out = "handed" THEN Append(recv, r) ELSE recv
             /\ listening' = IF out = "handed" THEN FALSE ELSE listening
             /\ latencies' = IF out = "buffered" THEN Append(latencies, r)
                             ELSE latencies
    /\ calls' = [calls EXCEPT ![i] = "idle"]
    /\ UNCHANGED <<poolVars, ctxErr, thrVars, cfg, quitChan, resetRTTCounter,
                   resetNoLoadRTT, noLoadRTT, histVars>>

\* Work, lines 300-305: unit panics; the deferred function decrements the
\* gauge and panics again with the recovered value, so that Work does not
\* return to its caller.
WorkPanic(i) ==
    /\ calls[i] = "unit"
    /\ inFlight' = PanicInFlight(inFlight)
    /\ calls' = [calls EXCEPT ![i] = "panicked"]
    /\ UNCHANGED <<poolVars, ctxErr, thrVars, ctlVars, histVars, listening, recv,
                   sendOutcome>>

\* NoWork, lines 285-292: the signal is taken by a consumer blocked in its
\* receive, and dropped otherwise (noWorkChan has no buffer, line 272).
NoWork(i) ==
    /\ calls[i] = "idle"
    /\ LET out == SendOutcome(listening, 0, 0)
       IN /\ out # "blocked"
          /\ sendOutcome' = out
    /\ listening' = FALSE
    /\ UNCHANGED <<poolVars, ctxErr, thrVars, ctlVars, histVars, inFlight, calls, recv>>

\* The consumer comes to its receive on NotifyChan() and NoWorkChan(): it
\* takes the oldest buffered report, or blocks.
ConsumerSelect ==
    /\ ~listening
    /\ Len(recv) < MaxRecv
    /\ IF latencies # <<>>
       THEN /\ recv' = Append(recv, Head(latencies))
            /\ latencies' = Tail(latencies)
            /\ listening' = listening
       ELSE /\ listening' = TRUE
            /\ UNCHANGED <<recv, latencies>>
    /\ UNCHANGED <<poolVars, ctxErr, thrVars, cfg, quitChan, resetRTTCounter,
                   resetNoLoadRTT, noLoadRTT, histVars, inFlight, calls,
                   sendOutcome>>

InitReporter ==
    /\ InitPoolVars
    /\ pc = [t \in Threads |-> IF t = "ctl" THEN "off" ELSE "idle"]
    /\ cfg \in [min : {0}, initial : {0}, max : {0}, chanSize : 0..MaxChanSize]
    /\ quitChan = "nil"
    /\ resetRTTCounter = 0
    /\ resetNoLoadRTT = FALSE
    /\ noLoadRTT = 0
    /\ latencies = <<>>
    /\ inFlight = 0
    /\ calls = [i \in Callers |-> "idle"]
    /\ listening = FALSE
    /\ recv = <<>>
    /\ sendOutcome = "none"

ReporterWorkStart == \E i \in Callers : WorkStart(i)
ReporterWorkReturn == \E i \in Callers : WorkReturn(i)
ReporterWorkPanic == \E i \in Callers : WorkPanic(i)
ReporterNoWork == \E i \in Callers : NoWork(i)

NextReporter ==
    \/ ReporterWorkStart
    \/ ReporterWorkReturn
    \/ ReporterWorkPanic
    \/ ReporterNoWork
    \/ ConsumerSelect

SpecReporter == InitReporter /\ [][NextReporter]_vars

\* The Work invocations that have run start() and not yet the decrement of
\* their deferred function.
Executing == {i \in Callers : calls[i] = "unit"}

\* C10: for every interleaving of Work invocations, each one increments the
\* in-flight counter once at entry and decrements it once at exit, however
\* the unit ends (normally, with an error, or with a panic that is raised
\* again): in every state the counter is the number of invocations executing,
\* and never negative.
C10_InFlightCountsExecuting ==
    /\ inFlight = Cardinality(Executing)
    /\ inFlight >= 0

\* One invocation has ended with a panic, another has returned and had its
\* report received, and one is executing.
C10_Witness ==
    /\ \E i \in Callers : calls[i] = "panicked"
    /\ \E i \in Callers : calls[i] = "unit"
    /\ recv # <<>>
    /\ inFlight = 1

RunnerPanic ==
    /\ nRun > 0
    /\ pc' = [t \in Threads |-> "crashed"]
    /\ nRun' = 0
    /\ nRet' = 0
    /\ nBcast' = 0
    /\ stopper' = EmptyBag
    /\ watchers' = EmptyBag
    /\ UNCHANGED <<wantedN, actualN, mutex, notifyList, ctxErr, after, arg,
                   sdCtx, ctlVars, histVars, repVars>>

NextPoolPanic ==
    \/ NextPool
    \/ RunnerPanic

SpecPoolPanic == InitPool /\ [][NextPoolPanic]_vars

\* C12: when a worker's Runner.Start panics, the pool still decrements
\* actualN by one for that worker and Broadcasts to the waiters.
C12_PanicStillDecrements ==
    [][RunnerPanic => (actualN' = actualN - 1 /\ notifyList' = {})]_vars

(***************************************************************************)
(* SpecNew: NewGradientController is called with a list of options on a    *)
(* fresh pool, and the controller it returns is started.                   *)
(***************************************************************************)
\* Largest number of options passed to NewGradientController.
MaxOpts == 3

\* const DefaultMaxConcurrency, line 12.
DefaultMaxConcurrency == 20

\* WithMinLimit, WithInitialLimit and WithMaxLimit, lines 47-63.
Opts == [field : {"min", "initial", "max"}, value : 0..MaxLimit]
OptSeqs == UNION {[1..n -> Opts] : n \in 0..MaxOpts}

\* NewGradientController, lines 78-90: the struct literal with the defaults.
Defaults ==
    [min |-> 1, initial |-> 1, max |-> DefaultMaxConcurrency, chanSize |-> 0]

\* NewGradientController, lines 91-93: the options are applied in order.
RECURSIVE ApplyOpts(_, _)
ApplyOpts(c, opts) ==
    IF opts = <<>> THEN c
    ELSE ApplyOpts([c EXCEPT ![Head(opts).field] = Head(opts).value], Tail(opts))

\* NewGradientController, lines 77-107: it returns the controller, or panics
\* in one of the three checks of lines 96-104.  It makes no call on the pool.
NewGradientController(opts) ==
    /\ pc["ctl"] = "unbuilt"
    /\ LET c == ApplyOpts(Defaults, opts)
       IN /\ cfg' = c
          /\ pc' = [pc EXCEPT !["ctl"] = IF Accepted(c) THEN "off"
                                         ELSE "new_panicked"]
    /\ UNCHANGED <<poolVars, ctxErr, after, arg, sdCtx, quitChan,
                   resetRTTCounter, resetNoLoadRTT, noLoadRTT, latencies,
                   histVars, repVars>>

New == \E opts \in OptSeqs : NewGradientController(opts)

InitNew ==
    /\ InitPoolVars
    /\ NoController
    /\ NoReporter
    /\ pc = [t \in Threads |-> IF t = "ctl" THEN "unbuilt" ELSE "idle"]

NextNew ==
    \/ New
    \/ UserStart
    \/ CtlEntry
    \/ CtlIncrLocked
    \/ CtlSeed

SpecNew == InitNew /\ [][NextNew]_vars

\* A controller has been returned by NewGradientController.
Built == pc["ctl"] \notin {"unbuilt", "new_panicked"}

\* C13: NewGradientController fails for every option list that leaves
\* min > max, initial < min or initial > max, and returns a controller for
\* every one that leaves min <= initial <= max; and the pool is untouched
\* (wantedN = actualN = 0, no worker) until Start.
C13_ConstructionFailsFast ==
    /\ pc["ctl"] = "new_panicked"
          => (cfg.min > cfg.max \/ cfg.initial < cfg.min \/ cfg.initial > cfg.max)
    /\ Built => (cfg.min <= cfg.initial /\ cfg.initial <= cfg.max)
    /\ quitChan = "nil" => (wantedN = 0 /\ actualN = 0 /\ Workers = 0)

\* A construction with initial > max (and min <= initial) has failed.
C13_Witness ==
    /\ pc["ctl"] = "new_panicked"
    /\ cfg.initial > cfg.max
    /\ cfg.min <= cfg.max
    /\ cfg.min <= cfg.initial
    /\ wantedN = 0

(***************************************************************************)
(* SpecTrip: the caller of a bare pool, after any sequence of Incr, Decr   *)
(* and SettleDown calls, finds actualN = wantedN and makes the calls       *)
(* Incr(n); SettleDown(ctx); Decr(n); SettleDown(ctx), with a ctx that is  *)
(* never cancelled, and no call after them.                                *)
(***************************************************************************)
\* The caller is not in the sequence (and has not been).
TripFree == trip.stage = 0

\* Incr(n), line 80, in a state with actualN = wantedN.
TripIncr ==
    \E n \in 0..MaxN :
        /\ pc["user"] = "idle"
        /\ ~done
        /\ TripFree
        /\ actualN = wantedN
        /\ Workers + n <= MaxWorkers
        /\ trip' = [n |-> n, k |-> wantedN, stage |-> 1]
        /\ IncrStart("user", n, "trip_sd")
        /\ UNCHANGED <<actualN, mutex, notifyList, nRun, nRet, nBcast, stopper,
                       watchers, ctxErr, sdCtx, ctlVars, sdOutcome, overDecr,
                       done, upd, repVars>>

\* The two SettleDown calls of the sequence: after Incr has returned, and
\* after Decr has.
TripSettleDown ==
    /\ \/ pc["user"] = "trip_sd" /\ trip.stage = 1
       \/ pc["user"] = "idle" /\ trip.stage = 3
    /\ trip' = [trip EXCEPT !.stage = trip.stage + 1]
    /\ pc' = [pc EXCEPT !["user"] = "sd_begin"]
    /\ sdCtx' = [sdCtx EXCEPT !["user"] = TODO]
    /\ UNCHANGED <<poolVars, ctxErr, after, arg, ctlVars, sdOutcome, overDecr,
                   done, upd, repVars>>

\* Decr(n), lines 104-117, after the first SettleDown has returned.
TripDecr ==
    /\ pc["user"] = "idle"
    /\ trip.stage = 2
    /\ trip' = [trip EXCEPT !.stage = 3]
    /\ Decr(trip.n)
    /\ UNCHANGED <<actualN, mutex, notifyList, nRun, nRet, nBcast, watchers,
                   ctxErr, thrVars, ctlVars, sdOutcome, overDecr, done, upd,
                   repVars>>

\* The calls the caller makes before the sequence.
FreeCallIncr == TripFree /\ CallIncr
FreeCallDecr == TripFree /\ CallDecr
FreeCallSettleDown == TripFree /\ CallSettleDown

\* The steps of the caller inside the sequence.
TripStep ==
    \/ TripSettleDown
    \/ TripDecr
    \/ UserIncrLocked
    \/ UserSdBegin
    \/ UserSdCheck
    \/ UserSdWait

NextTrip ==
    \/ FreeCallIncr
    \/ FreeCallDecr
    \/ FreeCallSettleDown
    \/ TripIncr
    \/ TripSettleDown
    \/ TripDecr
    \/ UserIncrLocked
    \/ UserSdBegin
    \/ UserSdCheck
    \/ UserSdWait
    \/ RunnerStop
    \/ RunProcessDecr
    \/ RunProcessBroadcast
    \/ WatcherRun
    \/ CancelCtx

SpecTrip == InitPool /\ [][NextTrip]_vars

\* The goroutine scheduler runs every goroutine that can take a step, and
\* every Runner returns once a stop token is receivable.
FairSpecTrip ==
    /\ SpecTrip
    /\ WF_vars(TripStep)
    /\ WF_vars(WatcherRun)
    /\ WF_vars(RunnerStop)
    /\ WF_vars(RunProcessDecr)
    /\ WF_vars(RunProcessBroadcast)

\* The second SettleDown of the sequence has returned.
TripReturned == trip.stage = 4 /\ pc["user"] = "idle"

\* C14: from every pool state with actualN = wantedN = k and for every n,
\* Incr(n); SettleDown; Decr(n); SettleDown (contexts never cancelled,
\* Runners honouring the stopper) terminates, with actualN = wantedN = k and
\* no stop token left undelivered.
C14_RoundTrip ==
    /\ [](trip.stage = 1 => <>TripReturned)
    /\ [](TripReturned
             => (actualN = trip.k /\ wantedN = trip.k /\ PendingTokens = 0))

\* A sequence with n = 2 that began at k = 1 has ended, its second
\* SettleDown having waited for workers to exit.
C14_Witness ==
    /\ TripReturned
    /\ trip.n = 2
    /\ trip.k = 1
    /\ sdOutcome = "woken_settled"

TokensOwed == PendingTokens + nRet

\* C16, as claimed: in every state with no Incr call in progress,
\* actualN - wantedN is the number of stop tokens requested by Decr that have
\* not yet resulted in a worker decrementing actualN.
C16_SurplusIsTokensOwed ==
    pc["user"] # "incr_lock" => actualN - wantedN = TokensOwed

\* C16, for Decr calls within wantedN: the same, in every state of a pool
\* whose Decr(n) calls all had n <= wantedN (it holds there, as the check of
\* this invariant shows); also actualN >= wantedN, and actualN counts the
\* workers that have not yet decremented it, so that each token received
\* ends exactly one worker.
C16_SurplusIsTokensOwedLegit ==
    (pc["user"] # "incr_lock" /\ ~overDecr)
        => /\ actualN - wantedN = TokensOwed
           /\ actualN >= wantedN
           /\ actualN = nRun + nRet

\* Of the two tokens of a Decr(2), one is still to be sent and one has been
\* received by a worker that has not yet decremented actualN.
C16_Witness ==
    /\ pc["user"] # "incr_lock"
    /\ ~overDecr
    /\ PendingTokens = 1
    /\ nRet = 1
    /\ actualN = wantedN + 2

(***************************************************************************)
(* Claims about the control loop.                                          *)
(***************************************************************************)
\* The control task is inside adjust(..., true) after a change of wantedN:
\* in the Incr of line 225 with SettleDown to follow, or in SettleDown.
CtlSettling ==
    \/ pc["ctl"] = "incr_lock" /\ after["ctl"] = "sd_begin"
    \/ InSettleDown("ctl")

\* C17: after the control task has handled an execution report whose adjust
\* changed wantedN, it is inside that adjust, where it consumes no report
\* and no no-work signal, until its SettleDown has observed
\* actualN = wantedN.
C17_ReportChangeSettles ==
    /\ [][(CtlReport /\ wantedN' # wantedN) => CtlSettling']_vars
    /\ [](CtlSettling => (~ENABLED CtlReport /\ ~ENABLED CtlNoWork))
    /\ [][(CtlSettling /\ ~CtlSettling')
             => (pc'["ctl"] = "select" /\ actualN' = wantedN')]_vars

\* The control task waits in the SettleDown of a report-driven decrease,
\* with a stop token outstanding, while the controller runs.
C17_Witness ==
    /\ quitChan = "open"
    /\ pc["ctl"] = "sd_parked"
    /\ actualN > wantedN
    /\ PendingTokens >= 1

(***************************************************************************)
(* SpecAdjust: the control task of a running controller calls adjust with  *)
(* any limit and any settle, on a pool that had settled at any number of   *)
(* workers, and calls it again whenever it is back from it.                *)
(***************************************************************************)
\* The limits passed to adjust: the small ones, one above every max, and
\* the largest uint.
NewLimits == 0..(MaxLimit + 1) \cup {UintMod - 1}

\* adjust, lines 214-236, called with newLimit and settle.
CtlAdjustWith(newLimit, settle) ==
    /\ pc["ctl"] = "select"
    /\ AdjustFits(newLimit)
    /\ adjust(newLimit, settle)
    /\ UNCHANGED <<actualN, mutex, notifyList, nRun, nRet, nBcast, watchers,
                   ctxErr, sdCtx, ctlVars, histVars, repVars>>

CtlAdjust == \E newLimit \in NewLimits, settle \in BOOLEAN : CtlAdjustWith(newLimit, settle)

InitAdjust ==
    /\ \E k \in 0..MaxWorkers :
          /\ wantedN = k
          /\ actualN = k
          /\ nRun = k
    /\ mutex = "free"
    /\ notifyList = {}
    /\ nRet = 0
    /\ nBcast = 0
    /\ stopper = EmptyBag
    /\ watchers = EmptyBag
    /\ ctxErr = [c \in AllCtx |-> FALSE]
    /\ after = [t \in Threads |-> "idle"]
    /\ arg = [t \in Threads |-> 0]
    /\ sdCtx = [t \in Threads |-> TODO]
    /\ sdOutcome = "none"
    /\ overDecr = FALSE
    /\ done = FALSE
    /\ trip = [n |-> 0, k |-> 0, stage |-> 0]
    /\ upd = NoUpdate
    /\ NoReporter
    /\ cfg \in Configs
    /\ quitChan = "open"
    /\ resetRTTCounter \in nextResetCounter
    /\ resetNoLoadRTT = TRUE
    /\ noLoadRTT = 0
    /\ latencies = <<>>
    /\ pc = [t \in Threads |-> IF t = "ctl" THEN "select" ELSE "idle"]

NextAdjust ==
    \/ CtlAdjust
    \/ CtlIncrLocked
    \/ CtlSdBegin
    \/ CtlSdCheck
    \/ CtlSdWait
    \/ RunnerStop
    \/ RunProcessDecr
    \/ RunProcessBroadcast

SpecAdjust == InitAdjust /\ [][NextAdjust]_vars

\* new_limit clamped into [min, max].
ClampedInto(x, lo, hi) == IF x < lo THEN lo ELSE IF x > hi THEN hi ELSE x

\* C18: adjust(newLimit, settle) leaves wantedN = clamp(newLimit, min, max),
\* for every newLimit and every wantedN before: with the clamped value
\* larger it calls Incr with exactly the difference (which spawns that many
\* workers), with it smaller Decr with exactly the difference (that many
\* stop tokens), and with it equal it makes no pool call, spawns no worker,
\* sends no token and does not wait in SettleDown.
C18_AdjustSetsClamped ==
    /\ [][\A newLimit \in NewLimits, settle \in BOOLEAN :
            CtlAdjustWith(newLimit, settle) =>
              LET c == ClampedInto(newLimit, cfg.min, cfg.max)
              IN /\ wantedN' = c
                 /\ c > wantedN =>
                       /\ pc'["ctl"] = "incr_lock"
                       /\ arg'["ctl"] = c - wantedN
                       /\ PendingTokens' = PendingTokens
                 /\ c < wantedN =>
                       /\ PendingTokens' = PendingTokens + (wantedN - c)
                       /\ pc'["ctl"] = IF settle THEN "sd_begin" ELSE "select"
                 /\ c = wantedN =>
                       /\ UNCHANGED poolVars
                       /\ pc'["ctl"] = "select"]_vars
    /\ [][CtlIncrLocked =>
            /\ nRun' = nRun + arg["ctl"]
            /\ actualN' = actualN + arg["ctl"]
            /\ UNCHANGED <<wantedN, stopper>>]_vars

\* adjust has raised wantedN from 0 to max = 2 and is in the Incr of the
\* difference, 2.
C18_Witness ==
    /\ pc["ctl"] = "incr_lock"
    /\ cfg.max = 2
    /\ wantedN = 2
    /\ arg["ctl"] = 2
    /\ actualN = 0

(***************************************************************************)
(* SpecUpdate: the control task of a started controller, its counter       *)
(* seeded, receives any sequence of execution reports, on a pool that had  *)
(* settled at any number of workers.  upd keeps the history of the calls   *)
(* of update.                                                              *)
(***************************************************************************)
\* Start, lines 157-158, for report r: c.adjust(c.update(r), true).
CtlUpdate(r, k) ==
    /\ pc["ctl"] = "select"
    /\ Update(r, k)
    /\ upd' = IF ProbeDue(USub(resetRTTCounter, 1))
              THEN [seed |-> k, count |-> 0, ret |-> updateReturn(r), rtts |-> {}]
              ELSE [seed |-> upd.seed, count |-> upd.count + 1,
                    ret |-> updateReturn(r), rtts |-> upd.rtts \cup {r.rtt}]
    /\ UNCHANGED <<actualN, mutex, notifyList, nRun, nRet, nBcast, watchers,
                   ctxErr, sdCtx, cfg, quitChan, latencies, sdOutcome,
                   overDecr, done, trip, repVars>>

CtlUpdateStep == \E r \in Executions, k \in nextResetCounter : CtlUpdate(r, k)

\* The state of a controller right after lines 149-151 of Start.
InitUpdate ==
    /\ \E k \in 0..MaxWorkers :
          /\ wantedN = k
          /\ actualN = k
          /\ nRun = k
    /\ mutex = "free"
    /\ notifyList = {}
    /\ nRet = 0
    /\ nBcast = 0
    /\ stopper = EmptyBag
    /\ watchers = EmptyBag
    /\ ctxErr = [c \in AllCtx |-> FALSE]
    /\ after = [t \in Threads |-> "idle"]
    /\ arg = [t \in Threads |-> 0]
    /\ sdCtx = [t \in Threads |-> TODO]
    /\ sdOutcome = "none"
    /\ overDecr = FALSE
    /\ done = FALSE
    /\ trip = [n |-> 0, k |-> 0, stage |-> 0]
    /\ NoReporter
    /\ cfg \in Configs
    /\ quitChan = "open"
    /\ resetRTTCounter \in nextResetCounter
    /\ upd = [seed |-> resetRTTCounter, count |-> 0, ret |-> 0, rtts |-> {}]
    /\ resetNoLoadRTT = TRUE
    /\ noLoadRTT = 0
    /\ latencies = <<>>
    /\ pc = [t \in Threads |-> IF t = "ctl" THEN "select" ELSE "idle"]

NextUpdate ==
    \/ CtlUpdateStep
    \/ CtlIncrLocked
    \/ CtlSdBegin
    \/ CtlSdCheck
    \/ CtlSdWait
    \/ RunnerStop
    \/ RunProcessDecr
    \/ RunProcessBroadcast

SpecUpdate == InitUpdate /\ [][NextUpdate]_vars

\* C19: with resetRTTCounter seeded to k >= 1, none of the first k - 1
\* reports update consumes takes the probe branch (the counter goes down by
\* one, and resetNoLoadRTT is left false), and the k-th does: that call
\* returns exactly queueSize(wantedN), sets resetNoLoadRTT, re-seeds the
\* counter with a value in [probeInterval, 2 * probeInterval) and leaves
\* noLoadRTT untouched, whatever the report's RTT and error.
C19_ProbeAtKth ==
    [][\A r \in Executions, k \in nextResetCounter :
          CtlUpdate(r, k) =>
            LET n == upd.count + 1
            IN /\ upd.seed >= 1
               /\ n <= upd.seed
               /\ n < upd.seed =>
                     /\ ~resetNoLoadRTT'
                     /\ resetRTTCounter' = upd.seed - n
               /\ n = upd.seed =>
                     /\ upd'.ret = queueSize(wantedN)
                     /\ resetNoLoadRTT'
                     /\ resetRTTCounter' \in ProbeInterval..(2 * ProbeInterval - 1)
                     /\ noLoadRTT' = noLoadRTT]_vars

\* The third report after a seed of 3 has taken the probe branch, after
\* reports with RTT 3 only: resetNoLoadRTT is set and noLoadRTT is kept.
C19_Witness ==
    /\ upd.count = 0
    /\ upd.rtts = {}
    /\ resetNoLoadRTT
    /\ noLoadRTT = 3
    /\ upd.ret = queueSize(wantedN)
    /\ pc["ctl"] = "select"

\* The smallest element of a non-empty set of RTTs.
MinOf(S) == CHOOSE x \in S : \A y \in S : x <= y

\* C20: within a probe epoch (from Start or a probe step to the next probe
\* step) the first report that is no probe overwrites noLoadRTT
\* unconditionally, also with a larger RTT; from then on noLoadRTT never
\* increases, and after each update that is no probe it is the minimum RTT
\* of the reports consumed so far in the epoch.  A probe step leaves it.
C20_NoLoadIsEpochMin ==
    [][\A r \in Executions, k \in nextResetCounter :
          CtlUpdate(r, k) =>
            IF resetNoLoadRTT'
            THEN noLoadRTT' = noLoadRTT
            ELSE /\ noLoadRTT' = MinOf(upd.rtts \cup {r.rtt})
                 /\ upd.rtts = {} => noLoadRTT' = r.rtt
                 /\ upd.rtts # {} => noLoadRTT' <= noLoadRTT]_vars

\* Two reports of the epoch, with RTTs 3 and 1, have been consumed and
\* noLoadRTT is 1.
C20_Witness ==
    /\ upd.rtts = {1, 3}
    /\ upd.count = 2
    /\ noLoadRTT = 1
    /\ ~resetNoLoadRTT

(***************************************************************************)
(* SpecGradient: the control task of a started controller consumes any     *)
(* sequence of execution reports, each with a pool that settles before the *)
(* next one: c.adjust(c.update(r), true) as one step.  The controller is   *)
(* built with any of a few options for update's arithmetic, and the        *)
(* reports carry any of the RTTs a worker can measure, zero included.      *)
(***************************************************************************)
\* Largest max limit among the configurations of SpecGradient.
MaxGradLimit == 10
\* The probeInterval the controllers of SpecGradient are configured with.
LongProbeInterval == 7

\* WithRTTTolerance and WithBackoffRatio, lines 16-20 and 41-45: the options
\* explored, the defaults among them.
GradOptions ==
    {[rttTolerance |-> [num |-> 1, den |-> 2], backoffRatio |-> backoffRatio],
     [rttTolerance |-> [num |-> 1, den |-> 1], backoffRatio |-> backoffRatio],
     [rttTolerance |-> rttTolerance, backoffRatio |-> backoffRatio],
     [rttTolerance |-> rttTolerance, backoffRatio |-> [num |-> 1, den |-> 2]]}

\* NewGradientController, lines 77-107: the controllers SpecGradient builds,
\* with initial = min.
GradConfigs ==
    {c \in [min : 0..1, initial : 0..1, max : {10, MaxGradLimit},
            chanSize : {0}, rttTolerance : {o.rttTolerance : o \in GradOptions},
            smoothing : {smoothing},
            backoffRatio : {o.backoffRatio : o \in GradOptions}] :
        /\ Accepted(c)
        /\ c.initial = c.min
        /\ [rttTolerance |-> c.rttTolerance, backoffRatio |-> c.backoffRatio]
              \in GradOptions}

\* done, line 326 of interfaces.go: the reports a worker sends; its latency
\* is time.Now().Sub(start), which is zero when the clock has not advanced.
GradRTTs == {0, 1, 3, 10}
GradExecutions == [inFlight : {0}, rtt : GradRTTs, err : BOOLEAN]

\* nextResetCounter, lines 210-212, with probeInterval = LongProbeInterval.
nextLongResetCounter ==
    {UAdd(LongProbeInterval, k) : k \in 0..(LongProbeInterval - 1)}

\* update, line 207: what uint(NaN) can be.  The conversion's result is
\* implementation-dependent: zero, the top bit alone and the largest uint
\* stand for the values a build produces.
NaNAsUint == {0, UintMod \div 2, UintMod - 1}

\* update, lines 170-208, with the controller's options: the value it
\* returns for report r when uint(NaN) is nan.
gradUpdateReturn(r, nan) ==
    LET currLimit == wantedN
    IN IF ProbeDue(USub(resetRTTCounter, 1))
       THEN queueSize(currLimit)
       ELSE updateLimitWith(cfg, currLimit, NoLoadAfter(r), r, nan)

\* Start, line 158, for report r: update, then adjust with the Incr or Decr
\* of the difference and the SettleDown the pool completes.  upd keeps the
\* report as well.
GradUpdate(r, k, nan) ==
    /\ pc["ctl"] = "select"
    /\ quitChan = "open"
    /\ UpdateState(r, k)
    /\ LET ret == gradUpdateReturn(r, nan)
           newLimit == Clamp(ret)
           currLimit == wantedN
       IN /\ wantedN' = IF newLimit > currLimit
                        THEN IncrWantedN(currLimit, newLimit - currLimit)
                        ELSE DecrWantedN(currLimit, currLimit - newLimit)
          /\ upd' = IF ProbeDue(USub(resetRTTCounter, 1))
                    THEN [seed |-> k, count |-> 0, ret |-> ret, rtts |-> {},
                          r |-> r]
                    ELSE [seed |-> upd.seed, count |-> upd.count + 1,
                          ret |-> ret, rtts |-> upd.rtts \cup {r.rtt},
                          r |-> r]
    /\ actualN' = wantedN'
    /\ nRun' = wantedN'
    /\ UNCHANGED <<mutex, notifyList, nRet, nBcast, stopper, watchers, ctxErr,
                   thrVars, cfg, quitChan, latencies, sdOutcome, overDecr,
                   done, trip, repVars>>

\* update calls nextResetCounter() on a probe only, and converts a NaN only
\* for a report without an error whose RTT is zero.
GradUpdateStep ==
    \E r \in GradExecutions :
        \E k \in IF ProbeDue(USub(resetRTTCounter, 1))
                 THEN nextLongResetCounter ELSE {LongProbeInterval},
           nan \in IF r.rtt = 0 /\ ~r.err THEN NaNAsUint ELSE {0} :
            GradUpdate(r, k, nan)

\* The state of a controller right after lines 149-151 of Start, its pool
\* settled at initial.
InitGradient ==
    /\ cfg \in GradConfigs
    /\ wantedN = cfg.initial
    /\ actualN = cfg.initial
    /\ nRun = cfg.initial
    /\ mutex = "free"
    /\ notifyList = {}
    /\ nRet = 0
    /\ nBcast = 0
    /\ stopper = EmptyBag
    /\ watchers = EmptyBag
    /\ ctxErr = [c \in AllCtx |-> FALSE]
    /\ after = [t \in Threads |-> "idle"]
    /\ arg = [t \in Threads |-> 0]
    /\ sdCtx = [t \in Threads |-> TODO]
    /\ sdOutcome = "none"
    /\ overDecr = FALSE
    /\ done = FALSE
    /\ trip = [n |-> 0, k |-> 0, stage |-> 0]
    /\ NoReporter
    /\ quitChan = "open"
    /\ resetRTTCounter \in nextLongResetCounter
    /\ upd = [seed |-> resetRTTCounter, count |-> 0, ret |-> 0, rtts |-> {},
              r |-> [inFlight |-> 0, rtt |-> 0, err |-> FALSE]]
    /\ resetNoLoadRTT = TRUE
    /\ noLoadRTT = 0
    /\ latencies = <<>>
    /\ pc = [t \in Threads |-> IF t = "ctl" THEN "select" ELSE "idle"]

NextGradient == GradUpdateStep

SpecGradient == InitGradient /\ [][NextGradient]_vars

\* The limits along the expected cold-start growth, and the one that follows
\* limit L on it.
Trajectory == <<1, 2, 3, 5, 7, 10>>
NextOnTrajectory(L) ==
    LET i == CHOOSE j \in 1..Len(Trajectory) : Trajectory[j] = L
    IN Trajectory[min(i + 1, Len(Trajectory))]

\* The controller of the cold-start growth: min = 1, initial = 1, max = 10,
\* and the default queueSize, which is the only one modelled.
ColdStart == cfg.min = 1 /\ cfg.initial = 1 /\ cfg.max = 10

\* A step of update that is no probe consumed a report without an error
\* whose RTT equals the noLoadRTT update computed with, under an
\* rttTolerance of at least 1.
EqualRTTStep ==
    /\ upd' # upd
    /\ ~resetNoLoadRTT'
    /\ ~upd'.r.err
    /\ upd'.r.rtt = noLoadRTT'
    /\ cfg.rttTolerance.num >= cfg.rttTolerance.den

\* What C21 says of such a step: update returned wantedN + queueSize(wantedN)
\* and, on the cold-start controller, wantedN moved one place on along
\* 1, 2, 3, 5, 7, 10, 10, ...
GrowsByQueueSize ==
    /\ upd'.ret = wantedN + queueSize(wantedN)
    /\ (ColdStart /\ \E j \in 1..Len(Trajectory) : Trajectory[j] = wantedN)
          => wantedN' = NextOnTrajectory(wantedN)

\* C21: with rttTolerance >= 1, every report without an error that is no
\* probe and whose RTT equals noLoadRTT makes update return
\* wantedN + queueSize(wantedN), so that with min = 1, initial = 1, max = 10
\* wantedN follows 1, 2, 3, 5, 7, 10 and stays at 10.
C21_EqualRTTGrows ==
    [][EqualRTTStep => GrowsByQueueSize]_vars

\* The same for the reports whose RTT is positive.
C21_EqualPositiveRTTGrows ==
    [][(EqualRTTStep /\ upd'.r.rtt > 0) => GrowsByQueueSize]_vars

\* The cold-start controller has consumed six reports with one positive
\* RTT and no probe, and wantedN is 10 after an update that returned 13.
C21_Witness ==
    /\ ColdStart
    /\ upd.count = Len(Trajectory)
    /\ upd.rtts = {3}
    /\ noLoadRTT = 3
    /\ upd.ret = 13
    /\ wantedN = 10

\* The first report of the cold-start controller had RTT zero and the
\* conversion of NaN put wantedN at max at once.
C21_ZeroRTT ==
    /\ ColdStart
    /\ upd.count = 1
    /\ upd.rtts = {0}
    /\ upd.ret = UintMod \div 2
    /\ wantedN = 10

(***************************************************************************)
(* The return value of update as a formula over the rationals; a rational  *)
(* is a record of a numerator and a positive denominator.                  *)
(***************************************************************************)
Frac(n, d) == [num |-> n, den |-> d]
FracLess(x, y) == x.num * y.den < y.num * x.den
FracAdd(x, y) == Frac(x.num * y.den + y.num * x.den, x.den * y.den)
FracMul(x, y) == Frac(x.num * y.num, x.den * y.den)
FracFloor(x) == x.num \div x.den
FracClamp(x, lo, hi) ==
    IF FracLess(x, lo) THEN lo ELSE IF FracLess(hi, x) THEN hi ELSE x

\* max(Q, floor(S(pre))) for limit L and a gradient g: pre is L*backoffRatio
\* for a report with an error and L*g + Q otherwise, and S(x) is x if
\* x >= L and (1 - smoothing)*L + smoothing*x otherwise.
FormulaReturn(o, L, g, err) ==
    LET Q == queueSize(L)
        pre == IF err THEN FracMul(Frac(L, 1), o.backoffRatio)
               ELSE FracAdd(FracMul(Frac(L, 1), g), Frac(Q, 1))
        S == IF ~FracLess(pre, Frac(L, 1)) THEN pre
             ELSE FracAdd(FracMul(FracAdd(Frac(1, 1),
                                          Frac(0 - o.smoothing.num, o.smoothing.den)),
                                  Frac(L, 1)),
                          FracMul(o.smoothing, pre))
    IN max(Q, FracFloor(S))

\* The values the formula allows for report r: the one for the gradient
\* clamp(rttTolerance*noLoad/rtt, 0.5, 1.0) and, where rtt = 0 leaves the
\* quotient without a value, those for any gradient between 0.5 and 1.0.
FormulaReturns(o, L, noLoad, r) ==
    IF r.rtt > 0
    THEN {FormulaReturn(o, L,
                        FracClamp(FracMul(o.rttTolerance, Frac(noLoad, r.rtt)),
                                  Frac(1, 2), Frac(1, 1)),
                        r.err)}
    ELSE FormulaReturn(o, L, Frac(1, 2), r.err)
             .. FormulaReturn(o, L, Frac(1, 1), r.err)

\* A step of update that is no probe.
NoProbeStep == upd' # upd /\ ~resetNoLoadRTT'

\* The controller computes with the default options.
DefaultArithmetic ==
    /\ cfg.rttTolerance = rttTolerance
    /\ cfg.smoothing = smoothing
    /\ cfg.backoffRatio = backoffRatio

\* What C22 says of a step that is no probe: update returned the value of
\* the formula, and with the defaults and L = 10 it returned 9 both for a
\* report with an error and for one without whose RTT is 10 times
\* noLoadRTT.
ReturnsFormula ==
    /\ upd'.ret \in FormulaReturns(cfg, wantedN, noLoadRTT', upd'.r)
    /\ (/\ DefaultArithmetic
        /\ wantedN = 10
        /\ upd'.r.err \/ upd'.r.rtt = 10 * noLoadRTT')
          => upd'.ret = 9

\* C22: for every report that is no probe update returns
\* max(Q, floor(S(pre))) with L = wantedN, Q = queueSize(L), pre =
\* L*backoffRatio for a report with an error, whatever its RTT, and
\* L*clamp(rttTolerance*noLoadRTT/rtt, 0.5, 1.0) + Q otherwise; with the
\* defaults and L = 10 an error report and a report without an error whose
\* rtt is 10*noLoadRTT both yield 9.
C22_UpdateReturnsFormula ==
    [][NoProbeStep => ReturnsFormula]_vars

\* The same for the reports with an error or a positive RTT.
C22_UpdateReturnsFormulaPositive ==
    [][(NoProbeStep /\ (upd'.r.err \/ upd'.r.rtt > 0)) => ReturnsFormula]_vars

\* With the defaults a report without an error, of RTT 10 against a
\* noLoadRTT of 1, took the limit from 10 to 9.
C22_Witness ==
    /\ DefaultArithmetic
    /\ ~upd.r.err
    /\ upd.r.rtt = 10
    /\ noLoadRTT = 1
    /\ ~resetNoLoadRTT
    /\ upd.ret = 9
    /\ wantedN = 9

\* With the defaults a report with an error, of RTT 1 = noLoadRTT, took the
\* limit from 10 to 9.
C22_WitnessErr ==
    /\ DefaultArithmetic
    /\ upd.r.err
    /\ upd.r.rtt = 1
    /\ noLoadRTT = 1
    /\ ~resetNoLoadRTT
    /\ upd.ret = 9
    /\ wantedN = 9

\* C23: when Stop returns, after convergence or because its ctx was
\* cancelled, every goroutine Decr spawned to deliver stop tokens has
\* completed: none has a token still to send on the stopper.
C23_StopJoinsSenders ==
    [][(InStop /\ StopReturned') => PendingTokens' = 0]_vars

\* The same for the Stop that returns after convergence.
C23_ConvergedStopJoinsSenders ==
    [][(InStop /\ StopReturned' /\ sdOutcome' # "cancelled")
          => PendingTokens' = 0]_vars

\* Stop has returned after convergence from a pool that had workers, all
\* its tokens delivered.
C23_Witness ==
    /\ StopReturned
    /\ sdOutcome = "woken_settled"
    /\ cfg.initial > 0
    /\ PendingTokens = 0
    /\ Workers = 0

\* Stop has returned because its ctx was cancelled while a goroutine of
\* Decr still has a token to send.
C23_CancelledStopLeavesSender ==
    /\ StopReturned
    /\ sdOutcome = "cancelled"
    /\ PendingTokens > 0

\* A step wrote wantedN; the thread that calls Stop did it (in the Decr of
\* line 270, the only step of that thread that can), or else the control
\* task did.
WroteWantedN == wantedN' # wantedN
StopWrote == WroteWantedN /\ pc["user"] = "stop_wg" /\ pc'["user"] = "sd_begin"
CtlWrote == WroteWantedN /\ ~StopWrote

\* The thread that calls Stop is inside neither Decr nor SettleDown: it
\* accesses no wantedN.
UserOutsidePool == pc["user"] = "idle" \/ (pc["user"] = "stop_wg" /\ pc["ctl"] # "off")

\* C24, as claimed: wantedN is written by the control task only, and no
\* write of it is concurrent with another write or with the read of wantedN
\* in a SettleDown.
C24_OnlyControlTaskWrites ==
    [][WroteWantedN =>
          /\ pc'["user"] = pc["user"]
          /\ pc["ctl"] \in {"entry", "select"}
          /\ UserOutsidePool]_vars

\* C24, amended: wantedN is written by the control task and, in Stop's Decr,
\* by the thread that calls Stop, which does so only after the control task
\* has exited; no write is concurrent with another write or with the read
\* of wantedN in a SettleDown of the other thread.
C24_WritesAreSerial ==
    [][/\ StopWrote => (pc["ctl"] = "off" /\ pc'["ctl"] = "off")
       /\ CtlWrote => (/\ pc'["user"] = pc["user"]
                       /\ pc["ctl"] \in {"entry", "select"}
                       /\ UserOutsidePool)]_vars

\* The thread that calls Stop has just written wantedN = 0, the control
\* task gone and workers still running.
C24_Witness ==
    /\ pc["user"] = "sd_begin"
    /\ pc["ctl"] = "off"
    /\ quitChan = "closed"
    /\ wantedN = 0
    /\ actualN > 0
    /\ PendingTokens = actualN

(***************************************************************************)
(* SpecStale: a controller with min = initial = max = 1 is started and     *)
(* stopped any number of times over a reporter of any depth up to          *)
(* MaxDepth.  Each report the latencies channel accepts carries, as        *)
(* history, its number in the order of acceptance (modulo SeqMod) and      *)
(* whether it was sent while no control task existed; recv holds the       *)
(* latest report passed to update.                                         *)
(***************************************************************************)
\* Largest depth of the latencies channel in SpecStale.
MaxDepth == 2
\* The reports are numbered modulo SeqMod.
SeqMod == 4

\* NewGradientController and NewNonBlockingReporter(chanSize): the
\* controllers of SpecStale.
StaleConfigs ==
    {c \in [min : {1}, initial : {1}, max : {1}, chanSize : 0..MaxDepth] :
        Accepted(c)}

\* The executions the workers of SpecStale report: update's arithmetic plays
\* no part in it.
StaleExecutions == {r \in Executions : r.rtt = 1 /\ ~r.err}

\* Stop has closed the control loop: quitChan is closed and the control
\* task has returned.
Stopped == quitChan = "closed" /\ pc["ctl"] = "off"

\* The number of the next report the channel accepts: one more than that
\* of the latest accepted one, which is the last in the buffer or, with an
\* empty buffer, the latest the control task received.
NextSeq ==
    IF latencies # <<>> THEN (latencies[Len(latencies)].seq + 1) % SeqMod
    ELSE IF recv # <<>> THEN (recv[1].seq + 1) % SeqMod
    ELSE 0

\* The report a worker's done() sends for the execution r.
Sent(r) ==
    [inFlight |-> r.inFlight, rtt |-> r.rtt, err |-> r.err,
     stale |-> Stopped, seq |-> NextSeq]

\* Start, line 157: the report a receive from the buffered channel yields.
Received == Head(latencies)

\* Start, line 157: the buffer after the receive.
Remaining == Tail(latencies)

\* done, lines 323-330 of interfaces.go: with room in the buffer the report
\* is kept, whether or not a control task exists (otherwise it is dropped).
StaleWorkerReport ==
    /\ nRun > 0
    /\ Len(latencies) < cfg.chanSize
    /\ \E r \in StaleExecutions : latencies' = Append(latencies, Sent(r))
    /\ UNCHANGED <<poolVars, ctxErr, thrVars, cfg, quitChan, resetRTTCounter,
                   resetNoLoadRTT, noLoadRTT, histVars, repVars>>

\* Start, lines 157-158: the control task receives the oldest buffered
\* report or, with nothing buffered, the one a worker hands over, and
\* passes it to update.
StaleCtlReport ==
    /\ pc["ctl"] = "select"
    /\ \E e \in StaleExecutions, k \in nextResetCounter :
          \E r \in IF latencies # <<>> THEN {Received} ELSE {Sent(e)} :
              /\ \/ /\ latencies # <<>>
                    /\ latencies' = Remaining
                 \/ /\ latencies = <<>>
                    /\ quitChan = "open"
                    /\ nRun > 0
                    /\ latencies' = latencies
              /\ Update(r, k)
              /\ recv' = <<r>>
    /\ UNCHANGED <<actualN, mutex, notifyList, nRun, nRet, nBcast, watchers,
                   ctxErr, sdCtx, cfg, quitChan, histVars, inFlight, calls,
                   listening, sendOutcome>>

InitStale ==
    /\ InitPoolVars
    /\ NoReporter
    /\ cfg \in StaleConfigs
    /\ quitChan = "nil"
    /\ resetRTTCounter = 0
    /\ resetNoLoadRTT = FALSE
    /\ noLoadRTT = 0
    /\ latencies = <<>>
    /\ pc = [t \in Threads |-> IF t = "ctl" THEN "off" ELSE "idle"]

NextStale ==
    \/ UserStart
    \/ UserStop
    \/ UserStopDecr
    \/ UserSdBegin
    \/ UserSdCheck
    \/ UserSdWait
    \/ CtlEntry
    \/ CtlIncrLocked
    \/ CtlSeed
    \/ StaleCtlReport
    \/ CtlNoWork
    \/ CtlQuit
    \/ StaleWorkerReport
    \/ RunnerStop
    \/ RunProcessDecr
    \/ RunProcessBroadcast
    \/ WatcherRun
    \/ CancelCtx

SpecStale == InitStale /\ [][NextStale]_vars

\* C25: every report a worker sends after Stop has closed the control loop
\* is discarded, whatever the depth of the reporter's buffer: none is ever
\* passed to update by a control task started later; and the reports
\* delivered are consumed in the order the channel accepted them.
C25_StoppedReportsDiscarded ==
    /\ [](recv # <<>> => ~recv[1].stale)
    /\ [][recv' # recv =>
            recv'[1].seq = IF recv = <<>> THEN 0 ELSE (recv[1].seq + 1) % SeqMod]_vars

\* The part of C25 about the order.
C25_ConsumedInOrder ==
    [][recv' # recv =>
          recv'[1].seq = IF recv = <<>> THEN 0 ELSE (recv[1].seq + 1) % SeqMod]_vars

\* The part of C25 about the stopped controller, for an unbuffered reporter.
C25_UnbufferedDiscards ==
    [](cfg.chanSize = 0 /\ recv # <<>> => ~recv[1].stale)

\* A restarted control task has passed to update a report that was sent
\* while the controller was stopped.
C25_StaleConsumed ==
    /\ recv # <<>>
    /\ recv[1].stale
    /\ quitChan = "open"

\* Over a reporter of depth 2 the control task has received the second
\* report the channel accepted, and nothing is buffered.
C25_Witness ==
    /\ recv # <<>>
    /\ recv[1].seq = 1
    /\ cfg.chanSize = 2
    /\ latencies = <<>>

====
